---- MODULE Spec2Model ----
(***************************************************************************)
(* Model of script.js (IPTV playlist page): parseM3U (the line loop, the    *)
(* pending-entry slot currentChannel, the two regular expressions and the  *)
(* construction of Channel objects) and fetchM3UData with the page state   *)
(* it writes.                                                              *)
(*                                                                         *)
(* A JavaScript string is a sequence of one-character strings.  The value  *)
(* null of a string-valued field is the sequence Null, which no string     *)
(* equals because its only element is not a single character.  The slot    *)
(* currentChannel is a sequence of length 0 (null) or 1 (the object).      *)
(***************************************************************************)
EXTENDS Integers, Sequences, FiniteSets, TLC

VARIABLES
    lines,           \* const lines = m3uText.split('\n')
    i,               \* position of the for..of loop in lines (1-based)
    channels,        \* const channels = []
    currentChannel,  \* let currentChannel = null
    pc,              \* "loop" while the for loop runs, "done" after return,
                     \* "threw" after an exception, "idle" when no call is
                     \* running or waiting for its caller
    origin,          \* history: for each pushed Channel, the indices of its
                     \* metadata line and of its URL line
    pendingLine,     \* history: index of the line that filled the slot, 0 if empty
    lastIndex,       \* attributeValueRegex.lastIndex
    parsed,          \* history: the argument lines and the result of every
                     \* parseM3U call that returned
    allChannels,     \* let allChannels = []
    filteredChannels,\* let filteredChannels = []
    favorites,       \* let favorites = JSON.parse(localStorage...) || []
    pageMessage,     \* pageMessageContainer: textContent, alert type, display
    channelGrid,     \* content of channelGridContainer
    categoryFilter,  \* the options of the category dropdown
    fetchPc,         \* position of the fetchM3UData call in flight, "idle" if none
    fetchCount,      \* number of fetchM3UData calls so far
    selectedIndex,   \* the selected option of the category dropdown (1-based,
                     \* 0 when it has no option)
    searchInput,     \* searchInput.value
    sectionsHidden,  \* the sections whose classList contains 'd-none'
    favoriteGrid,    \* content of favoriteChannelGridContainer
    showFavoritesBtn,\* showFavoritesBtn.textContent
    clapprPlayer,    \* let clapprPlayer = null
    currentStreamUrl,\* let currentStreamUrl = null
    playerContainer, \* content of the element 'player-container'
    storage,         \* localStorage item 'iptvFavorites'
    playersCreated   \* history: number of new Clappr.Player(...) so far

\* the locals of a parseM3U call and their history
locals ==
    <<lines, i, channels, currentChannel, pc, origin, pendingLine, lastIndex>>

\* the state of the page
\* what the user events and the player write besides
uiVars ==
    <<searchInput, sectionsHidden, favoriteGrid, showFavoritesBtn, clapprPlayer,
      currentStreamUrl, playerContainer, storage, playersCreated>>

pageVars ==
    <<allChannels, filteredChannels, favorites, pageMessage, channelGrid,
      categoryFilter, fetchPc, fetchCount, selectedIndex, uiVars>>

vars == <<locals, parsed, pageVars>>

-----------------------------------------------------------------------------
(* Characters and character classes *)

Digits == {"0", "1", "2", "3", "4", "5", "6", "7", "8", "9"}

LowerLetters ==
    <<"a", "b", "c", "d", "e", "f", "g", "h", "i", "j", "k", "l", "m",
      "n", "o", "p", "q", "r", "s", "t", "u", "v", "w", "x", "y", "z">>

UpperLetters ==
    <<"A", "B", "C", "D", "E", "F", "G", "H", "I", "J", "K", "L", "M",
      "N", "O", "P", "Q", "R", "S", "T", "U", "V", "W", "X", "Y", "Z">>

Range(f) == {f[x] : x \in DOMAIN f}

\* \s of a regular expression and the characters String.prototype.trim strips
WhiteSpace == {" ", "\t", "\n", "\r", "\f"}

\* the characters "." does not match
LineTerminators == {"\n", "\r"}

\* \w
WordChars == Range(LowerLetters) \cup Range(UpperLetters) \cup Digits \cup {"_"}

\* [\w-]
KeyChars == WordChars \cup {"-"}

\* String.prototype.toLowerCase, one character
LowerChar(c) ==
    IF c \in Range(UpperLetters)
    THEN LowerLetters[CHOOSE k \in DOMAIN UpperLetters : UpperLetters[k] = c]
    ELSE c

toLowerCase(s) == [k \in DOMAIN s |-> LowerChar(s[k])]

-----------------------------------------------------------------------------
(* String operations *)

\* whether p occurs in s at position at
StartsWithAt(s, p, at) ==
    /\ at + Len(p) - 1 <= Len(s)
    /\ \A k \in 1..Len(p) : s[at + k - 1] = p[k]

startsWith(s, p) == StartsWithAt(s, p, 1)

\* first index >= from whose character is not in set (Len(s)+1 if none)
RECURSIVE SkipWhile(_, _, _)
SkipWhile(s, from, set) ==
    IF from <= Len(s) /\ s[from] \in set
    THEN SkipWhile(s, from + 1, set)
    ELSE from

\* last index <= from whose character is not white space (0 if none)
RECURSIVE SkipBackWhiteSpace(_, _)
SkipBackWhiteSpace(s, from) ==
    IF from >= 1 /\ s[from] \in WhiteSpace
    THEN SkipBackWhiteSpace(s, from - 1)
    ELSE from

\* white space stripped at the start of the line only
trimStart(s) ==
    LET a == SkipWhile(s, 1, WhiteSpace)
    IN  IF a > Len(s) THEN <<>> ELSE SubSeq(s, a, Len(s))

trim(s) ==
    LET a == SkipWhile(s, 1, WhiteSpace)
        b == SkipBackWhiteSpace(s, Len(s))
    IN  IF a > b THEN <<>> ELSE SubSeq(s, a, b)

\* first index >= from whose character is c (Len(s)+1 if none)
RECURSIVE IndexOf(_, _, _)
IndexOf(s, c, from) ==
    IF from > Len(s) \/ s[from] = c THEN from ELSE IndexOf(s, c, from + 1)

\* m3uText.split('\n')
RECURSIVE split(_)
split(text) ==
    LET n == IndexOf(text, "\n", 1)
    IN  IF n > Len(text)
        THEN <<text>>
        ELSE <<SubSeq(text, 1, n - 1)>> \o split(SubSeq(text, n + 1, Len(text)))

-----------------------------------------------------------------------------
(* Literals of parseM3U *)

Null == <<"null">>
NoChannel == <<>>

MarkerEXTM3U == <<"#", "E", "X", "T", "M", "3", "U">>
MarkerEXTINF == <<"#", "E", "X", "T", "I", "N", "F">>
PrefixHttp == <<"h", "t", "t", "p">>
SchemeHttp == <<"h", "t", "t", "p", ":", "/", "/">>
SchemeHttps == <<"h", "t", "t", "p", "s", ":", "/", "/">>
Uncategorized ==
    <<"U", "n", "c", "a", "t", "e", "g", "o", "r", "i", "z", "e", "d">>
UntitledChannel ==
    <<"U", "n", "t", "i", "t", "l", "e", "d", " ",
      "C", "h", "a", "n", "n", "e", "l">>
KeyTvgId == <<"t", "v", "g", "-", "i", "d">>
KeyTvgName == <<"t", "v", "g", "-", "n", "a", "m", "e">>
KeyTvgLogo == <<"t", "v", "g", "-", "l", "o", "g", "o">>
KeyGroupTitle == <<"g", "r", "o", "u", "p", "-", "t", "i", "t", "l", "e">>

\* the key whose assignment on an object literal goes to the setter inherited
\* from Object.prototype
KeyProto == <<"_", "_", "p", "r", "o", "t", "o", "_", "_">>

-----------------------------------------------------------------------------
\* extinfRegex = /#EXTINF:-?\d+(?:\s+(.*?))?,(.*)/

\* first index >= from whose character is in set (Len(s)+1 if none)
RECURSIVE SkipUntil(_, _, _)
SkipUntil(s, from, set) ==
    IF from > Len(s) \/ s[from] \in set THEN from ELSE SkipUntil(s, from + 1, set)

ExtinfPrefix == MarkerEXTINF \o <<":">>

NoMatch == [ok |-> FALSE, hasAttrs |-> FALSE, attrs |-> <<>>, title |-> <<>>]

\* The only way extinfRegex matches with its first character at position p.
\* -? and \d+ are greedy and what follows them cannot start with a character
\* they gave back; \s+ takes the whole white-space run, the lazy (.*?) stops at
\* the first comma and crosses no line terminator; (.*) runs to the next line
\* terminator.  Group 1 takes part in the match only if white space follows the
\* digits.
ExtinfMatchAt(s, p) ==
    LET q == p + Len(ExtinfPrefix)
        q1 == IF q <= Len(s) /\ s[q] = "-" THEN q + 1 ELSE q
        d == SkipWhile(s, q1, Digits)
        w == SkipWhile(s, d, WhiteSpace)
        c == IF w > d THEN SkipUntil(s, w, {","} \cup LineTerminators) ELSE d
        e == SkipUntil(s, c + 1, LineTerminators)
    IN  IF /\ StartsWithAt(s, ExtinfPrefix, p)
           /\ d > q1
           /\ c <= Len(s)
           /\ s[c] = ","
        THEN [ok |-> TRUE,
              hasAttrs |-> w > d,
              attrs |-> IF w > d THEN SubSeq(s, w, c - 1) ELSE <<>>,
              title |-> SubSeq(s, c + 1, e - 1)]
        ELSE NoMatch

\* trimmedLine.match(extinfRegex): the leftmost position where it matches
RECURSIVE ExtinfSearch(_, _)
ExtinfSearch(s, p) ==
    IF p > Len(s)
    THEN NoMatch
    ELSE LET m == ExtinfMatchAt(s, p)
         IN  IF m.ok THEN m ELSE ExtinfSearch(s, p + 1)

extinfMatch(trimmedLine) == ExtinfSearch(trimmedLine, 1)

\* const attributesString = extinfMatch[1] || ''
attributesString(m) == IF m.hasAttrs THEN m.attrs ELSE <<>>

\* const titleString = extinfMatch[2] ? extinfMatch[2].trim() : ''
titleString(m) == IF m.title # <<>> THEN trim(m.title) ELSE <<>>

-----------------------------------------------------------------------------
\* attributeValueRegex = /([\w-]+)\s*=\s*"([^"]*)"/g

NoAttr == [ok |-> FALSE, key |-> <<>>, value |-> <<>>, lastIndex |-> 0]

\* The only way attributeValueRegex matches with its first character at
\* position p (1-based); lastIndex is the 0-based index after the match.
AttrMatchAt(a, p) ==
    LET k == SkipWhile(a, p, KeyChars)
        eq == SkipWhile(a, k, WhiteSpace)
        v == SkipWhile(a, eq + 1, WhiteSpace)
        z == IndexOf(a, "\"", v + 1)
    IN  IF /\ k > p
           /\ eq <= Len(a) /\ a[eq] = "="
           /\ v <= Len(a) /\ a[v] = "\""
           /\ z <= Len(a)
        THEN [ok |-> TRUE,
              key |-> SubSeq(a, p, k - 1),
              value |-> SubSeq(a, v + 1, z - 1),
              lastIndex |-> z]
        ELSE NoAttr

\* attributeValueRegex.exec(a) with the regex's lastIndex being from: the
\* leftmost match starting at 0-based index from or later; on failure the
\* result is null and lastIndex is set to 0
RECURSIVE exec(_, _)
exec(a, from) ==
    IF from >= Len(a)
    THEN NoAttr
    ELSE LET m == AttrMatchAt(a, from + 1)
         IN  IF m.ok THEN m ELSE exec(a, from + 1)

-----------------------------------------------------------------------------
(* Channel objects *)

EmptyObject == [k \in {} |-> <<>>]

\* currentChannel = { title: '', streamUrl: '', logo: null, ... }
FreshChannel ==
    [title |-> <<>>,
     streamUrl |-> <<>>,
     logo |-> Null,
     groupTitle |-> Uncategorized,
     tvgId |-> Null,
     rawAttributes |-> EmptyObject]

\* currentChannel.rawAttributes[key] = value, on an object created by {} and
\* with a string as value: an own property is written, except for the key
\* __proto__, which Object.prototype defines as an accessor whose setter
\* ignores a value that is neither an object nor null
SetProperty(obj, key, value) ==
    IF key = KeyProto
    THEN obj
    ELSE [k \in DOMAIN obj \cup {key} |-> IF k = key THEN value ELSE obj[k]]

\* body of the while loop over the attribute matches
StoreAttribute(ch, key, value) ==
    [title |-> IF key = KeyTvgName THEN value ELSE ch.title,
     streamUrl |-> ch.streamUrl,
     logo |-> IF key = KeyTvgLogo THEN value ELSE ch.logo,
     groupTitle |-> IF key = KeyGroupTitle THEN value ELSE ch.groupTitle,
     tvgId |-> IF key = KeyTvgId THEN value ELSE ch.tvgId,
     rawAttributes |-> SetProperty(ch.rawAttributes, key, value)]

\* while ((attrMatch = attributeValueRegex.exec(attributesString)) !== null)
RECURSIVE ParseAttributes(_, _, _)
ParseAttributes(ch, a, from) ==
    LET m == exec(a, from)
    IN  IF m.ok
        THEN ParseAttributes(StoreAttribute(ch, toLowerCase(m.key), m.value),
                             a, m.lastIndex)
        ELSE ch

\* lastIndex left after the last match when exec finds no further one
RECURSIVE LastIndexNotReset(_, _)
LastIndexNotReset(a, from) ==
    LET m == exec(a, from)
    IN  IF m.ok THEN LastIndexNotReset(a, m.lastIndex) ELSE from

\* attributeValueRegex.lastIndex when the while loop ends: the exec that
\* returns null has set it to 0
RECURSIVE AttributeLoopEnd(_, _)
AttributeLoopEnd(a, from) ==
    LET m == exec(a, from)
    IN  IF m.ok THEN AttributeLoopEnd(a, m.lastIndex) ELSE m.lastIndex

\* the two title fallbacks
ResolveTitle(ch, t) ==
    LET t1 == IF ch.title = <<>> THEN t ELSE ch.title
        t2 == IF t1 = <<>> THEN UntitledChannel ELSE t1
    IN  [ch EXCEPT !.title = t2]

\* the Channel a matching #EXTINF line leaves in the slot, the regex being at
\* lastIndex from
ChannelOfExtinfAt(fresh, m, from) ==
    ResolveTitle(ParseAttributes(fresh, attributesString(m), from), titleString(m))

\* the same with a regex at lastIndex 0, as a new regex is
ChannelOfExtinf(fresh, m) == ChannelOfExtinfAt(fresh, m, 0)

\* the scheme left unchecked
IsValidStreamUrlAnyScheme(u) == u # <<>>

\* the test guarding channels.push
IsValidStreamUrl(u) ==
    /\ u # <<>>
    /\ (startsWith(u, SchemeHttp) \/ startsWith(u, SchemeHttps))

-----------------------------------------------------------------------------
(* Inputs: playlist texts built from pools of lines *)

\* longest text over CorePool (pairing and ordering of entries)
MaxLines == 4

\* longest text over LinePool (decomposition of one metadata line)
MaxDetailLines == 2

\* key="value"
Attr(key, value) == [key |-> key, value |-> value]

\* a metadata line as its author declares it: duration, attributes, title text
Meta(dur, attrs, title) == [dur |-> dur, attrs |-> attrs, title |-> title]

RECURSIVE RenderAttrs(_)
RenderAttrs(attrs) ==
    IF attrs = <<>>
    THEN <<>>
    ELSE <<" ">> \o Head(attrs).key \o <<"=", "\"">> \o Head(attrs).value
         \o <<"\"">> \o RenderAttrs(Tail(attrs))

\* #EXTINF:<duration> key="value" ...,<title text>
Render(d) ==
    ExtinfPrefix \o d.dur \o RenderAttrs(d.attrs) \o <<",">> \o d.title

MetaPlain == Meta(<<"-", "1">>, <<>>, <<"A">>)
MetaNamed ==
    Meta(<<"0">>,
         <<Attr(KeyTvgName, <<"N">>), Attr(KeyGroupTitle, <<"G">>)>>,
         <<"B">>)
MetaEmptyName == Meta(<<"-", "1">>, <<Attr(KeyTvgName, <<>>)>>, <<" ", "B">>)
MetaNoTitle == Meta(<<"-", "1">>, <<>>, <<>>)
MetaNoDuration == Meta(<<>>, <<>>, <<"A">>)
MetaCommaValue ==
    Meta(<<"-", "1">>, <<Attr(KeyTvgName, <<"F", ",", "I">>)>>, <<"B">>)

\* keys in upper case, tvg-id twice, a group-title with blanks around it
MetaUpperKeys ==
    Meta(<<"-", "1">>,
         <<Attr(<<"T", "V", "G", "-", "I", "D">>, <<"c">>),
           Attr(KeyTvgId, <<"d">>),
           Attr(<<"T", "v", "g", "-", "L", "o", "g", "o">>, <<"L">>),
           Attr(<<"G", "R", "O", "U", "P", "-", "t", "i", "t", "l", "e">>,
                <<" ", "g", " ">>)>>,
         <<"A">>)
MetaEmptyGroup == Meta(<<"-", "1">>, <<Attr(KeyGroupTitle, <<>>)>>, <<"A">>)
MetaCommaGroup ==
    Meta(<<"-", "1">>, <<Attr(KeyGroupTitle, <<"G", ",", "H">>)>>, <<"A">>)
MetaProto == Meta(<<"-", "1">>, <<Attr(KeyProto, <<"x">>)>>, <<"A">>)

DeclaredMetas ==
    {MetaPlain, MetaNamed, MetaEmptyName, MetaNoTitle, MetaNoDuration,
     MetaCommaValue, MetaUpperKeys, MetaEmptyGroup, MetaCommaGroup, MetaProto}

\* #EXTINF:-1 A   (no comma)
LineNoComma == ExtinfPrefix \o <<"-", "1", " ", "A">>

UrlHttp == SchemeHttp \o <<"a">>
UrlHttps == SchemeHttps \o <<"b">>
\* starts with http, scheme separator broken
UrlBadScheme == <<"h", "t", "t", "p", ":", "/", "c">>
UrlFtp == <<"f", "t", "p", ":", "/", "/", "d">>

\* the line kinds the loop tells apart
CorePool ==
    {Render(MetaPlain), Render(MetaNamed), LineNoComma,
     UrlHttp, UrlBadScheme, UrlFtp, <<>>}

\* every line of the model
LinePool ==
    CorePool \cup {Render(d) : d \in DeclaredMetas}
    \cup {UrlHttps, MarkerEXTM3U}

RECURSIVE Join(_)
Join(ls) ==
    IF ls = <<>> THEN <<>>
    ELSE IF Len(ls) = 1 THEN ls[1]
    ELSE ls[1] \o <<"\n">> \o Join(Tail(ls))

SeqsUpTo(pool, max) == UNION {[1..n -> pool] : n \in 0..max}

\* the playlist texts: lines separated by \n
Texts ==
    {Join(ls) : ls \in SeqsUpTo(CorePool, MaxLines)
                       \cup SeqsUpTo(LinePool, MaxDetailLines)}

-----------------------------------------------------------------------------
(* parseM3U as a state machine: one step per iteration of the for loop *)

\* the entry added at the front
unshift(seq, e) == <<e>> \o seq

\* channels.push(currentChannel)
push(seq, e) == Append(seq, e)

\* an entry already pending kept when the next #EXTINF line is read
SlotKeepsEarlier(prev, ch) == IF prev # NoChannel THEN prev ELSE <<ch>>

\* currentChannel = { ... }, filled from a matching #EXTINF line: whatever was
\* pending is overwritten
SlotAfterExtinf(prev, ch) == <<ch>>

\* the slot left filled after the push
SlotKeptAfterPush(ch, valid) == IF valid THEN <<ch>> ELSE NoChannel

\* the slot left filled when the URL is dropped
SlotKeptWhenInvalid(ch, valid) == IF valid THEN NoChannel ELSE <<ch>>

\* currentChannel = null after a URL line completed or dropped the entry
SlotAfterUrl(ch, valid) == NoChannel

\* the fresh object left in the slot
SlotKeepsFresh(fresh) == <<fresh>>

\* currentChannel = null after an #EXTINF line that does not match
SlotAfterMalformed(fresh) == NoChannel

\* break instead of continue
IndexBreakOnMalformed(k, n) == n + 1

\* continue after an #EXTINF line that does not match
IndexAfterMalformed(k, n) == k + 1

\* the characters of a string inside a JSON string literal
RECURSIVE EscapeFrom(_, _)
EscapeFrom(str, k) ==
    IF k > Len(str) THEN <<>>
    ELSE (IF str[k] \in {"\"", "\\"} THEN <<"\\", str[k]>> ELSE <<str[k]>>)
         \o EscapeFrom(str, k + 1)

Quote(str) == <<"\"">> \o EscapeFrom(str, 1) \o <<"\"">>

RECURSIVE StringifyFrom(_, _)
StringifyFrom(list, k) ==
    IF k > Len(list) THEN <<>>
    ELSE (IF k > 1 THEN <<",">> ELSE <<>>) \o Quote(list[k])
         \o StringifyFrom(list, k + 1)

\* JSON.stringify(favorites), favorites being an array of strings
JSONstringify(list) == <<"[">> \o StringifyFrom(list, 1) \o <<"]">>

\* the string literal whose opening quote is before position k
RECURSIVE ParseString(_, _, _)
ParseString(text, k, acc) ==
    IF k > Len(text) \/ text[k] = "\""
    THEN [value |-> acc, next |-> k + 1]
    ELSE IF text[k] = "\\" /\ k < Len(text)
    THEN ParseString(text, k + 2, Append(acc, text[k + 1]))
    ELSE ParseString(text, k + 1, Append(acc, text[k]))

RECURSIVE ParseElements(_, _, _)
ParseElements(text, k, acc) ==
    IF k > Len(text) \/ text[k] = "]" THEN acc
    ELSE IF text[k] = "\""
    THEN LET element == ParseString(text, k + 1, <<>>)
         IN  ParseElements(text, element.next, Append(acc, element.value))
    ELSE ParseElements(text, k + 1, acc)

\* JSON.parse(text), text being the JSON of an array of strings
JSONparse(text) == ParseElements(text, 1, <<>>)

\* JSON.parse(localStorage.getItem('iptvFavorites')) || []
StoredList(item) == IF item = Null THEN <<>> ELSE JSONparse(item)

\* <div id="player-container"></div>
EmptyContainer == [content |-> "", message |-> <<>>]

\* the page state once the script has been evaluated, stored being the item
\* under the key 'iptvFavorites' of localStorage (Null: there is none)
ScriptEvaluated(stored) ==
    /\ allChannels = <<>>
    /\ filteredChannels = <<>>
    /\ favorites = StoredList(stored)
    /\ pageMessage = [textContent |-> <<>>, type |-> "", display |-> ""]
    /\ channelGrid = [notice |-> FALSE, cards |-> <<>>]
    /\ categoryFilter = <<>>
    /\ fetchPc = "idle"
    /\ fetchCount = 0
    /\ selectedIndex = 0
    /\ searchInput = <<>>
    /\ sectionsHidden = {"favorites", "player"}
    /\ favoriteGrid = [notice |-> FALSE, cards |-> <<>>]
    /\ showFavoritesBtn = "Show Favorites"
    /\ clapprPlayer = <<>>
    /\ currentStreamUrl = Null
    /\ playerContainer = EmptyContainer
    /\ storage = stored
    /\ playersCreated = 0

Init ==
    /\ \E text \in Texts : lines = split(text)
    /\ i = 1
    /\ channels = <<>>
    /\ currentChannel = NoChannel
    /\ pc = "loop"
    /\ origin = <<>>
    /\ pendingLine = 0
    /\ lastIndex = 0
    /\ parsed = <<>>
    /\ ScriptEvaluated(Null)

InLoop == pc = "loop" /\ i <= Len(lines)

trimmedLine == trim(lines[i])

\* if (!trimmedLine || trimmedLine.startsWith('#EXTM3U')) continue
IsSkipped(t) == t = <<>> \/ startsWith(t, MarkerEXTM3U)

IsExtinf(t) == ~IsSkipped(t) /\ startsWith(t, MarkerEXTINF)

IsUrlLine(t) == ~IsSkipped(t) /\ ~IsExtinf(t) /\ startsWith(t, PrefixHttp)

\* any line but a blank, #EXTM3U or #EXTINF one taken as the URL line
UrlBranchOnAnyLine(t, slot) == ~IsSkipped(t) /\ ~IsExtinf(t) /\ slot # NoChannel

\* else if (trimmedLine.startsWith('http') && currentChannel)
UrlBranchTaken(t, slot) == IsUrlLine(t) /\ slot # NoChannel

SkipLine ==
    /\ InLoop
    /\ IsSkipped(trimmedLine)
    /\ i' = i + 1
    /\ UNCHANGED <<lines, channels, currentChannel, pc, origin, pendingLine>>
    /\ UNCHANGED <<lastIndex, parsed, pageVars>>

ExtinfLine ==
    /\ InLoop
    /\ IsExtinf(trimmedLine)
    /\ LET m == extinfMatch(trimmedLine)
       IN  /\ m.ok
           /\ currentChannel' =
                 SlotAfterExtinf(currentChannel,
                                 ChannelOfExtinfAt(FreshChannel, m, lastIndex))
           /\ lastIndex' = AttributeLoopEnd(attributesString(m), lastIndex)
    /\ pendingLine' = i
    /\ i' = i + 1
    /\ UNCHANGED <<lines, channels, pc, origin>>
    /\ UNCHANGED <<parsed, pageVars>>

MalformedExtinfLine ==
    /\ InLoop
    /\ IsExtinf(trimmedLine)
    /\ ~extinfMatch(trimmedLine).ok
    /\ currentChannel' = SlotAfterMalformed(FreshChannel)
    /\ pendingLine' = IF currentChannel' = NoChannel THEN 0 ELSE i
    /\ i' = IndexAfterMalformed(i, Len(lines))
    /\ UNCHANGED <<lines, channels, pc, origin>>
    /\ UNCHANGED <<lastIndex, parsed, pageVars>>

\* currentChannel.streamUrl = trimmedLine throws a TypeError if the slot is
\* null: the loop is left without a return value
UrlLine ==
    /\ InLoop
    /\ UrlBranchTaken(trimmedLine, currentChannel)
    /\ IF currentChannel = NoChannel
       THEN /\ pc' = "threw"
            /\ UNCHANGED <<lines, i, channels, currentChannel, origin, pendingLine>>
       ELSE /\ LET ch == [currentChannel[1] EXCEPT !.streamUrl = trimmedLine]
                   valid == IsValidStreamUrl(ch.streamUrl)
               IN  /\ channels' = IF valid THEN push(channels, ch) ELSE channels
                   /\ origin' =
                         IF valid
                         THEN push(origin, [meta |-> pendingLine, url |-> i])
                         ELSE origin
                   /\ currentChannel' = SlotAfterUrl(ch, valid)
            /\ pendingLine' = IF currentChannel' = NoChannel THEN 0 ELSE pendingLine
            /\ i' = i + 1
            /\ UNCHANGED <<lines, pc>>
    /\ UNCHANGED <<lastIndex, parsed, pageVars>>

OtherLine ==
    /\ InLoop
    /\ ~IsSkipped(trimmedLine)
    /\ ~IsExtinf(trimmedLine)
    /\ ~UrlBranchTaken(trimmedLine, currentChannel)
    /\ i' = i + 1
    /\ UNCHANGED <<lines, channels, currentChannel, pc, origin, pendingLine>>
    /\ UNCHANGED <<lastIndex, parsed, pageVars>>

Return ==
    /\ pc = "loop"
    /\ i > Len(lines)
    /\ pc' = "done"
    /\ parsed' = Append(parsed, [lines |-> lines, channels |-> channels])
    /\ UNCHANGED <<lines, i, channels, currentChannel, origin, pendingLine>>
    /\ UNCHANGED <<lastIndex, pageVars>>

Next ==
    \/ SkipLine
    \/ ExtinfLine
    \/ MalformedExtinfLine
    \/ UrlLine
    \/ OtherLine
    \/ Return

Spec == Init /\ [][Next]_vars

-----------------------------------------------------------------------------
(* parseM3U as a function of its argument: the same loop, run from the state *)
(* a call starts in *)

\* one iteration of the for loop on channels, currentChannel and the
\* lastIndex of attributeValueRegex
LoopBody(st, line) ==
    LET t == trim(line)
        slot == st.currentChannel
    IN  IF IsSkipped(t) THEN st
        ELSE IF IsExtinf(t)
        THEN LET m == extinfMatch(t)
             IN  [channels |-> st.channels,
                  currentChannel |->
                      IF m.ok
                      THEN SlotAfterExtinf(slot,
                               ChannelOfExtinfAt(FreshChannel, m, st.lastIndex))
                      ELSE SlotAfterMalformed(FreshChannel),
                  lastIndex |->
                      IF m.ok
                      THEN AttributeLoopEnd(attributesString(m), st.lastIndex)
                      ELSE st.lastIndex]
        ELSE IF UrlBranchTaken(t, slot)
        THEN LET ch == [slot[1] EXCEPT !.streamUrl = t]
                 valid == IsValidStreamUrl(ch.streamUrl)
             IN  [channels |-> IF valid THEN push(st.channels, ch) ELSE st.channels,
                  currentChannel |-> SlotAfterUrl(ch, valid),
                  lastIndex |-> st.lastIndex]
        ELSE st

RECURSIVE LoopFrom(_, _, _)
LoopFrom(ls, k, st) ==
    IF k > Len(ls) THEN st ELSE LoopFrom(ls, k + 1, LoopBody(st, ls[k]))

parseM3U(m3uText) ==
    LoopFrom(split(m3uText), 1,
             [channels |-> <<>>, currentChannel |-> NoChannel,
              lastIndex |-> 0]).channels

-----------------------------------------------------------------------------
(* The page: fetchM3UData and what it renders.  A message text is kept as   *)
(* the sequence of its parts.                                               *)

\* number of fetchM3UData calls in a behaviour
MaxFetches == 2

\* the characters of the model in the order of their UTF-16 code units
CodeUnits ==
    <<"\t", "\n", "\f", "\r", " ", "\"", "#", ",", "-", ".", "/",
      "0", "1", "2", "3", "4", "5", "6", "7", "8", "9", ":", "<", "=", ">">>
    \o UpperLetters \o <<"_">> \o LowerLetters

CodeUnit(c) == CHOOSE k \in DOMAIN CodeUnits : CodeUnits[k] = c

\* s < t for strings: the order Array.prototype.sort uses without a compare
\* function
RECURSIVE LessFrom(_, _, _)
LessFrom(s, t, k) ==
    IF k > Len(s) THEN k <= Len(t)
    ELSE IF k > Len(t) THEN FALSE
    ELSE IF s[k] = t[k] THEN LessFrom(s, t, k + 1)
    ELSE CodeUnit(s[k]) < CodeUnit(t[k])

\* Array.from(set).sort()
RECURSIVE sort(_)
sort(set) ==
    IF set = {} THEN <<>>
    ELSE LET least == CHOOSE x \in set : \A y \in set \ {x} : LessFrom(x, y, 1)
         IN  <<least>> \o sort(set \ {least})

\* m3uText.includes(p)
includes(str, p) == \E k \in 1..(Len(str) + 1) : StartsWithAt(str, p, k)

\* String(n)
RECURSIVE NumberToString(_)
NumberToString(n) ==
    LET digit == CodeUnits[CodeUnit("0") + (n % 10)]
    IN  IF n < 10 THEN <<digit>> ELSE NumberToString(n \div 10) \o <<digit>>

AllCategories ==
    <<"A", "l", "l", " ", "C", "a", "t", "e", "g", "o", "r", "i", "e", "s">>
ValueAll == <<"a", "l", "l">>

\* <option value="all">All Categories</option>
OptionAll == [value |-> ValueAll, text |-> AllCategories]

TextLoading == <<"Loading channels...">>
TextNoValidChannels ==
    <<"No valid channels found in the playlist. Check the M3U source.">>
TextLoaded(n) == <<"Loaded ">> \o NumberToString(n) \o <<" channels.">>
TextError(message) == <<"Error loading channels: ", message>>
ErrorHttp == "HTTP Error"
ErrorNotM3U ==
    "Received content is not a valid M3U playlist. Check the URL or M3U format."
ErrorNetwork == "Failed to fetch"

\* showPageMessage(message, type)
showPageMessage(message, type) ==
    [textContent |-> message, type |-> type, display |-> "block"]

\* only the first favorite counts
IsFirstFavorite(favs, title) == favs # <<>> /\ favs[1] = title

\* favorites.includes(title)
IsFavorite(favs, title) == \E k \in DOMAIN favs : favs[k] = title

\* one card of the grid: the Channel its click handlers hold, the image
\* source and the state of the heart button
Card(channel, favs) ==
    [channel |-> channel,
     src |-> IF channel.logo = Null \/ channel.logo = <<>>
             THEN <<"placeholder">> ELSE channel.logo,
     favorited |-> IsFavorite(favs, channel.title)]

\* container.innerHTML = ''
EmptyGrid == [notice |-> FALSE, cards |-> <<>>]

\* renderChannels(channelsToRender): the content of the container afterwards
renderChannels(channelsToRender, favs) ==
    IF Len(channelsToRender) = 0
    THEN [notice |-> TRUE, cards |-> <<>>]
    ELSE [notice |-> FALSE,
          cards |-> [k \in DOMAIN channelsToRender |->
                        Card(channelsToRender[k], favs)]]

\* populateCategoryFilter(): the options of the dropdown afterwards
populateCategoryFilter(all) ==
    LET categories ==
            {AllCategories} \cup
            {all[k].groupTitle : k \in {h \in DOMAIN all :
                                          /\ all[h].groupTitle # <<>>
                                          /\ all[h].groupTitle # Uncategorized}}
        sortedCategories == sort(categories)
    IN  [k \in DOMAIN sortedCategories |->
            [value |-> sortedCategories[k], text |-> sortedCategories[k]]]

\* any text taken for a playlist
LooksLikeAnything(m3uText) == TRUE

\* m3uText.startsWith('#EXTM3U') || m3uText.includes('#EXTINF')
LooksLikeM3U(m3uText) ==
    startsWith(m3uText, MarkerEXTM3U) \/ includes(m3uText, MarkerEXTINF)

\* the new Channels added to the old ones
MergeChannels(old, new) == old \o new

\* allChannels = parseM3U(m3uText)
ReplaceChannels(old, new) == new

\* 'success' whatever the number of Channels
OutcomeAlwaysSuccess(n) ==
    [textContent |-> TextLoaded(n), type |-> "success", display |-> "block"]

\* the message after the parse: if (allChannels.length === 0) ... else ...
OutcomeOfParse(n) ==
    IF n = 0
    THEN showPageMessage(TextNoValidChannels, "warning")
    ELSE showPageMessage(TextLoaded(n), "success")

\* the slot of the call before
SlotCarriedOver(prev) == prev

\* let currentChannel = null at the start of a call
SlotAtCall(prev) == NoChannel

\* the texts a response can carry
TextHtml == <<"<", "h", "t", "m", "l", ">">>
TextHeaderOnly == MarkerEXTM3U
TextTwoChannels ==
    Join(<<MarkerEXTM3U, Render(MetaNamed), UrlHttp, Render(MetaPlain), UrlHttps>>)
TextNoHeader == Join(<<Render(MetaUpperKeys), UrlHttp>>)
\* a URL line first, a metadata line left pending at the end
TextUrlThenPending == Join(<<MarkerEXTM3U, UrlHttp, Render(MetaPlain)>>)
TextMalformed == Join(<<MarkerEXTM3U, LineNoComma, UrlHttp>>)
TextMentionsExtinf == Join(<<TextHtml \o <<" ">> \o MarkerEXTINF, UrlHttp>>)

\* two Channels titled A with different tvg-id, and three groups
TextThreeChannels ==
    Join(<<MarkerEXTM3U, Render(MetaNamed), UrlHttp, Render(MetaPlain), UrlHttps,
           Render(MetaUpperKeys), UrlHttp>>)

PageTexts ==
    {TextHtml, TextHeaderOnly, TextTwoChannels, TextNoHeader,
     TextUrlThenPending, TextMalformed, TextMentionsExtinf, TextThreeChannels}

\* what localStorage can hold under 'iptvFavorites'
StoredFavorites == {Null, JSONstringify(<< <<"A">> >>)}

PageInit ==
    /\ lines = <<>>
    /\ i = 1
    /\ channels = <<>>
    /\ currentChannel = NoChannel
    /\ pc = "idle"
    /\ origin = <<>>
    /\ pendingLine = 0
    /\ lastIndex = 0
    /\ parsed = <<>>
    /\ \E stored \in StoredFavorites : ScriptEvaluated(stored)

\* fetchM3UData up to await fetch(M3U_URL)
FetchBegins ==
    /\ pageMessage' = showPageMessage(TextLoading, "info")
    /\ channelGrid' = EmptyGrid
    /\ categoryFilter' = <<OptionAll>>
    /\ fetchPc' = "fetch"
    /\ fetchCount' = fetchCount + 1
    /\ selectedIndex' = 1
    /\ UNCHANGED <<allChannels, filteredChannels, favorites, locals, parsed>>
    /\ UNCHANGED uiVars

\* the listener of DOMContentLoaded: the message container is set up and
\* hidden, then fetchM3UData() is called
DOMContentLoaded ==
    /\ fetchCount = 0
    /\ fetchPc = "idle"
    /\ FetchBegins

\* a later call of fetchM3UData, when none is in flight
fetchM3UData ==
    /\ fetchCount \in 1..(MaxFetches - 1)
    /\ fetchPc = "idle"
    /\ FetchBegins

\* the catch block
Catch(message) ==
    /\ pageMessage' = showPageMessage(TextError(message), "danger")
    /\ channelGrid' = renderChannels(<<>>, favorites)
    /\ fetchPc' = "idle"
    /\ UNCHANGED <<allChannels, filteredChannels, favorites, categoryFilter,
                   fetchCount, selectedIndex, uiVars>>

\* fetch(M3U_URL) rejects
FetchRejected ==
    /\ fetchPc = "fetch"
    /\ Catch(ErrorNetwork)
    /\ UNCHANGED <<locals, parsed>>

\* fetch(M3U_URL) resolves with a response
ResponseArrived ==
    /\ fetchPc = "fetch"
    /\ \E ok \in BOOLEAN : fetchPc' = IF ok THEN "text" ELSE "errorText"
    /\ UNCHANGED <<allChannels, filteredChannels, favorites, pageMessage,
                   channelGrid, categoryFilter, fetchCount, locals, parsed>>
    /\ UNCHANGED <<selectedIndex, uiVars>>

\* !response.ok: the error text is read and the Error thrown
ErrorTextRead ==
    /\ fetchPc = "errorText"
    /\ Catch(ErrorHttp)
    /\ UNCHANGED <<locals, parsed>>

\* response.text() rejects
BodyFailed ==
    /\ fetchPc \in {"text", "errorText"}
    /\ Catch(ErrorNetwork)
    /\ UNCHANGED <<locals, parsed>>

\* response.text() resolves for an ok response: the text is checked and
\* parseM3U is called with it
TextRead ==
    /\ fetchPc = "text"
    /\ \E m3uText \in PageTexts :
          IF LooksLikeM3U(m3uText)
          THEN /\ lines' = split(m3uText)
               /\ i' = 1
               /\ channels' = <<>>
               /\ currentChannel' = SlotAtCall(currentChannel)
               /\ pc' = "loop"
               /\ origin' = <<>>
               /\ pendingLine' = 0
               /\ lastIndex' = 0
               /\ fetchPc' = "parse"
               /\ UNCHANGED <<allChannels, filteredChannels, favorites,
                              pageMessage, channelGrid, categoryFilter,
                              fetchCount, selectedIndex, uiVars>>
          ELSE /\ Catch(ErrorNotM3U)
               /\ UNCHANGED locals
    /\ UNCHANGED parsed

\* parseM3U has returned: the rest of the try block
FetchParsed ==
    /\ fetchPc = "parse"
    /\ pc \in {"done", "threw"}
    /\ IF pc = "threw"
       THEN Catch(ErrorNetwork)
       ELSE /\ allChannels' = ReplaceChannels(allChannels, channels)
            /\ filteredChannels' = allChannels'
            /\ pageMessage' = OutcomeOfParse(Len(allChannels'))
            /\ channelGrid' = renderChannels(filteredChannels', favorites)
            /\ categoryFilter' =
                  IF Len(allChannels') = 0
                  THEN categoryFilter
                  ELSE populateCategoryFilter(allChannels')
            /\ selectedIndex' = IF Len(allChannels') = 0 THEN selectedIndex ELSE 1
            /\ fetchPc' = "idle"
            /\ UNCHANGED <<favorites, fetchCount, uiVars>>
    /\ pc' = "idle"
    /\ UNCHANGED <<lines, i, channels, currentChannel, origin, pendingLine,
                   lastIndex, parsed>>

PageNext ==
    \/ DOMContentLoaded
    \/ fetchM3UData
    \/ FetchRejected
    \/ ResponseArrived
    \/ ErrorTextRead
    \/ BodyFailed
    \/ TextRead
    \/ SkipLine
    \/ ExtinfLine
    \/ MalformedExtinfLine
    \/ UrlLine
    \/ OtherLine
    \/ Return
    \/ FetchParsed

PageSpec == PageInit /\ [][PageNext]_vars

-----------------------------------------------------------------------------
(* The page: what the user and the player do.  A handler runs to its end    *)
(* before the next one starts, so none runs while parseM3U is running.      *)

Sections == {"channels", "favorites", "player"}

\* what the user can type into the search box
SearchTerms == {<<>>, <<"A">>, <<"n">>}

TextNoStream == <<"Selected channel has no valid stream URL.">>
TextStreamError == <<"Error loading stream.">>
TextStreamErrorOf(message) == <<"Stream Error: ", message>>

\* the error objects the player can hand to onPlayerError
PlayerErrors == {<<>>, <<[message |-> "network"]>>}

\* hidePageMessage()
hidePageMessage(message) == [message EXCEPT !.display = "none"]

\* section.classList.contains('d-none') is false
IsVisible(section) == section \notin sectionsHidden

\* categoryFilter.value
categoryValue(options, index) ==
    IF index \in DOMAIN options THEN options[index].value ELSE <<>>

\* the favorites list with the title added whether it is in it or not
addFavorite(favs, channelTitle) == Append(favs, channelTitle)

\* favorites.indexOf(channelTitle): 0 instead of -1, positions from 1
indexOf(favs, channelTitle) ==
    IF IsFavorite(favs, channelTitle)
    THEN CHOOSE k \in DOMAIN favs :
            /\ favs[k] = channelTitle
            /\ \A h \in 1..(k - 1) : favs[h] # channelTitle
    ELSE 0

\* favorites.splice(index, 1)
splice(favs, index) ==
    [k \in 1..(Len(favs) - 1) |-> IF k < index THEN favs[k] ELSE favs[k + 1]]

\* the favorites list after the first lines of toggleFavorite(channelTitle)
toggleFavorite(favs, channelTitle) ==
    LET index == indexOf(favs, channelTitle)
    IN  IF index = 0 THEN Append(favs, channelTitle) ELSE splice(favs, index)

\* selectedCategory === 'all' || channel.groupTitle === selectedCategory
MatchesCategory(groupTitle, selectedCategory) ==
    selectedCategory = ValueAll \/ groupTitle = selectedCategory

\* allChannels.filter(...) of applyFilters
FilterChannels(all, value, selectedCategory) ==
    LET searchTerm == toLowerCase(value)
        Test(channel) ==
            /\ includes(toLowerCase(channel.title), searchTerm)
            /\ MatchesCategory(channel.groupTitle, selectedCategory)
    IN  SelectSeq(all, Test)

\* allChannels.filter(channel => favorites.includes(channel.title))
favoriteChannelsData(all, favs) ==
    LET Test(channel) == IsFavorite(favs, channel.title)
    IN  SelectSeq(all, Test)

\* the classes of the sections after playChannel, the channels section left
\* as it is
SectionsLeftForPlayer(hidden) == (hidden \cup {"favorites"}) \ {"player"}

\* the classes of the sections after playChannel
SectionsForPlayer(hidden) ==
    (hidden \cup {"channels", "favorites"}) \ {"player"}

\* the classes of the sections after renderFavorites
SectionsForFavorites(hidden) ==
    (hidden \cup {"channels", "player"}) \ {"favorites"}

\* a new player on every call
AlwaysNewPlayer(player) == TRUE

\* if (!clapprPlayer)
NeedsNewPlayer(player) == player = <<>>

\* allChannels = allChannels.filter(...)
AllChannelsNarrowed(all, filtered) == filtered

\* allChannels after applyFilters: the result of filter is assigned to
\* filteredChannels only
AllChannelsAfterFilter(all, filtered) == all

\* the whole of applyFilters() for the given search box and dropdown
applyFilters(value, selectedCategory) ==
    /\ filteredChannels' = FilterChannels(allChannels, value, selectedCategory)
    /\ allChannels' = AllChannelsAfterFilter(allChannels, filteredChannels')
    /\ channelGrid' = renderChannels(filteredChannels', favorites)

\* the whole of renderFavorites() with the favorites list favs
renderFavorites(favs) ==
    /\ favoriteGrid' = renderChannels(favoriteChannelsData(allChannels, favs), favs)
    /\ sectionsHidden' = SectionsForFavorites(sectionsHidden)
    /\ showFavoritesBtn' = "Show All Channels"

\* the user is served once the page is set up and while no handler runs
UserCanAct ==
    /\ fetchCount > 0
    /\ fetchPc # "parse"

\* the listener of 'input' on the search box
SearchInput ==
    /\ UserCanAct
    /\ \E value \in SearchTerms \ {searchInput} :
          /\ searchInput' = value
          /\ applyFilters(value, categoryValue(categoryFilter, selectedIndex))
    /\ UNCHANGED <<favorites, pageMessage, categoryFilter, fetchPc,
                   fetchCount, selectedIndex, sectionsHidden, favoriteGrid,
                   showFavoritesBtn, clapprPlayer, currentStreamUrl,
                   playerContainer, storage, playersCreated, locals, parsed>>

\* the listener of 'change' on the category dropdown
CategoryChange ==
    /\ UserCanAct
    /\ \E k \in DOMAIN categoryFilter \ {selectedIndex} :
          /\ selectedIndex' = k
          /\ applyFilters(searchInput, categoryValue(categoryFilter, k))
    /\ UNCHANGED <<favorites, pageMessage, categoryFilter, fetchPc,
                   fetchCount, uiVars, locals, parsed>>

\* the listener of 'click' on the show-favorites button
ShowFavoritesClick ==
    /\ UserCanAct
    /\ pageMessage' = hidePageMessage(pageMessage)
    /\ IF ~IsVisible("favorites")
       THEN /\ renderFavorites(favorites)
            /\ UNCHANGED <<allChannels, filteredChannels, channelGrid>>
       ELSE /\ sectionsHidden' = sectionsHidden \cup Sections
            /\ showFavoritesBtn' = "Show Favorites"
            /\ applyFilters(searchInput,
                            categoryValue(categoryFilter, selectedIndex))
            /\ UNCHANGED favoriteGrid
    /\ UNCHANGED <<favorites, categoryFilter, fetchPc, fetchCount,
                   selectedIndex, searchInput, clapprPlayer, currentStreamUrl,
                   playerContainer, storage, playersCreated, locals, parsed>>

\* the cards the user can click: those of a grid whose section is visible
VisibleCards ==
    (IF IsVisible("channels")
     THEN {channelGrid.cards[k] : k \in DOMAIN channelGrid.cards} ELSE {})
    \cup
    (IF IsVisible("favorites")
     THEN {favoriteGrid.cards[k] : k \in DOMAIN favoriteGrid.cards} ELSE {})

\* playChannel(channel), channel being <<>> for null.  The player is kept
\* with the source of its options and the URL of its last load(), if any.
playChannel(channel) ==
    /\ IF channel = <<>> \/ channel[1].streamUrl = <<>>
       THEN /\ pageMessage' = showPageMessage(TextNoStream, "danger")
            /\ UNCHANGED <<sectionsHidden, clapprPlayer, currentStreamUrl,
                           playerContainer, playersCreated>>
       ELSE /\ pageMessage' = hidePageMessage(pageMessage)
            /\ sectionsHidden' = SectionsForPlayer(sectionsHidden)
            /\ IF NeedsNewPlayer(clapprPlayer)
               THEN /\ clapprPlayer' = <<[id |-> playersCreated + 1,
                                          source |-> channel[1].streamUrl,
                                          loaded |-> Null]>>
                    /\ playersCreated' = playersCreated + 1
                    /\ playerContainer' = [content |-> "player", message |-> <<>>]
               ELSE /\ clapprPlayer' =
                          <<[clapprPlayer[1] EXCEPT
                                !.loaded = channel[1].streamUrl]>>
                    /\ UNCHANGED <<playersCreated, playerContainer>>
            /\ currentStreamUrl' = channel[1].streamUrl
    /\ UNCHANGED <<allChannels, filteredChannels, favorites, channelGrid,
                   categoryFilter, fetchPc, fetchCount, selectedIndex,
                   searchInput, favoriteGrid, showFavoritesBtn, storage,
                   locals, parsed>>

\* the listener of 'click' on the body of a card
CardClick ==
    /\ UserCanAct
    /\ \E card \in VisibleCards : playChannel(<<card.channel>>)

\* playChannel called without a Channel, or with one that has no stream URL
PlayInvalidChannel ==
    /\ UserCanAct
    /\ \E channel \in {<<>>, <<FreshChannel>>} : playChannel(channel)

\* the listener of 'click' on the heart button of a card: toggleFavorite and
\* the renderFavorites() that follows it when the favorites are shown
FavoriteButtonClick ==
    /\ UserCanAct
    /\ \E card \in VisibleCards :
          /\ favorites' = toggleFavorite(favorites, card.channel.title)
          /\ storage' = JSONstringify(favorites')
          /\ channelGrid' = IF IsVisible("channels")
                            THEN renderChannels(filteredChannels, favorites')
                            ELSE channelGrid
          /\ IF IsVisible("favorites")
             THEN renderFavorites(favorites')
             ELSE UNCHANGED <<favoriteGrid, sectionsHidden, showFavoritesBtn>>
    /\ UNCHANGED <<allChannels, filteredChannels, pageMessage, categoryFilter,
                   fetchPc, fetchCount, selectedIndex, searchInput,
                   clapprPlayer, currentStreamUrl, playerContainer,
                   playersCreated, locals, parsed>>

\* handlePlayerError(error), called by the player that playChannel created
handlePlayerError ==
    /\ UserCanAct
    /\ clapprPlayer # <<>>
    /\ \E error \in PlayerErrors :
          playerContainer' =
              [content |-> "error",
               message |-> IF error # <<>> /\ error[1].message # ""
                           THEN TextStreamErrorOf(error[1].message)
                           ELSE TextStreamError]
    /\ UNCHANGED <<allChannels, filteredChannels, favorites, pageMessage,
                   channelGrid, categoryFilter, fetchPc, fetchCount,
                   selectedIndex, searchInput, sectionsHidden, favoriteGrid,
                   showFavoritesBtn, clapprPlayer, currentStreamUrl, storage,
                   playersCreated, locals, parsed>>

\* the page as the script runs it: one call of fetchM3UData, by the listener
\* of DOMContentLoaded
UINext ==
    \/ DOMContentLoaded
    \/ FetchRejected
    \/ ResponseArrived
    \/ ErrorTextRead
    \/ BodyFailed
    \/ TextRead
    \/ SkipLine
    \/ ExtinfLine
    \/ MalformedExtinfLine
    \/ UrlLine
    \/ OtherLine
    \/ Return
    \/ FetchParsed
    \/ SearchInput
    \/ CategoryChange
    \/ ShowFavoritesClick
    \/ CardClick
    \/ PlayInvalidChannel
    \/ FavoriteButtonClick
    \/ handlePlayerError

UISpec == PageInit /\ [][UINext]_vars

-----------------------------------------------------------------------------
(* Vocabulary of the properties *)

\* the trimmed j-th line of the input
T(j) == trim(lines[j])

\* indices of the lines the loop has gone through
Read == 1..(i - 1)

HasValidScheme(u) == startsWith(u, SchemeHttp) \/ startsWith(u, SchemeHttps)

\* The metadata shape #EXTINF:<integer>[ <attributes>],<title> stated on the
\* positions of the line: p where the marker starts, d where the duration
\* ends, c where the separating comma is.  Between d and c there is white
\* space first, and a line terminator only inside that white space.
DurationEndsAt(s, p, d) ==
    LET q == p + Len(ExtinfPrefix)
        q1 == IF s[q] = "-" THEN q + 1 ELSE q
    IN  q1 < d /\ \A k \in q1..(d - 1) : s[k] \in Digits

SeparatedAt(s, d, c) ==
    /\ s[c] = ","
    /\ d < c => s[d] \in WhiteSpace
    /\ \A k \in d..(c - 1) :
          s[k] \in LineTerminators => \A h \in d..k : s[h] \in WhiteSpace

HasMetadataShape(s) ==
    \E p \in 1..Len(s) :
        /\ StartsWithAt(s, ExtinfPrefix, p)
        /\ \E d \in (p + Len(ExtinfPrefix) + 1)..Len(s) :
              /\ DurationEndsAt(s, p, d)
              /\ \E c \in d..Len(s) : SeparatedAt(s, d, c)

\* the first line after line j that is not blank, 0 if there is none
NextNonBlank(j) ==
    LET S == {k \in (j + 1)..Len(lines) : T(k) # <<>>}
    IN  IF S = {} THEN 0 ELSE CHOOSE k \in S : \A h \in S : k <= h

\* line j is a metadata line of that shape and the next line that is not
\* blank, line u, is a valid URL line
WellFormedPair(j, u) ==
    /\ startsWith(T(j), MarkerEXTINF)
    /\ HasMetadataShape(T(j))
    /\ u = NextNonBlank(j)
    /\ u > 0
    /\ HasValidScheme(T(u))

\* the Channel that metadata line m and URL line u make
ChannelOfLines(m, u) ==
    [ChannelOfExtinf(FreshChannel, extinfMatch(trim(m))) EXCEPT
        !.streamUrl = trim(u)]

Emitted(j, u) == \E a \in DOMAIN origin : origin[a] = [meta |-> j, url |-> u]

-----------------------------------------------------------------------------
\* C1: every Channel in the sequence built by parseM3U has a non-empty title
\* and a streamUrl that begins with http:// or https://.
C1_ChannelsValid ==
    \A a \in DOMAIN channels :
        /\ channels[a].title # <<>>
        /\ HasValidScheme(channels[a].streamUrl)

\* a Channel with the placeholder title and an https URL has been returned
C1_Witness ==
    /\ pc = "done"
    /\ \E a \in DOMAIN channels :
          /\ channels[a].title = UntitledChannel
          /\ startsWith(channels[a].streamUrl, SchemeHttps)

\* C2: a Channel is appended only by a step that reads a URL line while an
\* entry is pending, one at a time; every Channel comes from one metadata line
\* and one later URL line, no line serves two Channels, and the output is no
\* longer than the number of metadata lines or of URL lines read.
C2_State ==
    /\ Len(origin) = Len(channels)
    /\ \A a \in DOMAIN origin :
          /\ origin[a].meta \in Read /\ startsWith(T(origin[a].meta), MarkerEXTINF)
          /\ origin[a].url \in Read /\ startsWith(T(origin[a].url), PrefixHttp)
          /\ origin[a].meta < origin[a].url
    /\ \A a, b \in DOMAIN origin :
          a # b => origin[a].meta # origin[b].meta /\ origin[a].url # origin[b].url
    /\ Len(channels) <= Cardinality({j \in Read : startsWith(T(j), MarkerEXTINF)})
    /\ Len(channels) <= Cardinality({j \in Read : startsWith(T(j), PrefixHttp)})

C2_Step ==
    /\ channels' # channels =>
          /\ InLoop
          /\ startsWith(trimmedLine, PrefixHttp)
          /\ currentChannel # NoChannel
          /\ Len(channels') = Len(channels) + 1
    /\ (InLoop /\ startsWith(trimmedLine, PrefixHttp) /\ currentChannel = NoChannel)
          => channels' = channels

C2_OneChannelPerPair == [](C2_State) /\ [][C2_Step]_vars

\* a URL line was read with no entry pending, the one before it having
\* consumed the only metadata line
C2_Witness ==
    /\ pc = "done"
    /\ Len(lines) = 3
    /\ startsWith(T(1), MarkerEXTINF)
    /\ HasValidScheme(T(2))
    /\ HasValidScheme(T(3))
    /\ Len(channels) = 1

\* C3: parseM3U never throws and never leaves the loop before the last line;
\* when it returns, every line has been read and every well-formed
\* metadata/URL pair of the input is emitted, whatever malformed entries the
\* input holds besides.
C3_TotalAndIsolated ==
    /\ pc # "threw"
    /\ pc = "loop" => i \in 1..(Len(lines) + 1)
    /\ pc = "done" =>
          /\ i = Len(lines) + 1
          /\ \A j, u \in 1..Len(lines) : WellFormedPair(j, u) => Emitted(j, u)

\* a well-formed pair was emitted after an entry that a URL line with a bad
\* scheme had removed
C3_Witness ==
    /\ pc = "done"
    /\ Len(channels) = 1
    /\ \E j \in 1..Len(lines) :
          /\ j >= 3
          /\ WellFormedPair(j, j + 1)
          /\ Emitted(j, j + 1)
          /\ startsWith(T(j - 2), MarkerEXTINF) /\ HasMetadataShape(T(j - 2))
          /\ startsWith(T(j - 1), PrefixHttp) /\ ~HasValidScheme(T(j - 1))

\* C4: the Channels are in the order of their metadata lines, each Channel
\* being the one its metadata line and its URL line make.
C4_OrderPreserved ==
    /\ Len(origin) = Len(channels)
    /\ \A a \in DOMAIN channels :
          channels[a] = ChannelOfLines(lines[origin[a].meta], lines[origin[a].url])
    /\ \A a, b \in DOMAIN channels : a < b => origin[a].meta < origin[b].meta

\* two Channels with different titles were returned
C4_Witness ==
    /\ pc = "done"
    /\ Len(channels) = 2
    /\ channels[1].title # channels[2].title

\* index of the last #EXTINF line before line u, 0 if there is none
LastExtinfBefore(u) ==
    LET S == {j \in 1..(u - 1) : startsWith(T(j), MarkerEXTINF)}
    IN  IF S = {} THEN 0 ELSE CHOOSE j \in S : \A k \in S : k <= j

\* line j is a metadata line of the shape
IsShapedMetadata(j) == startsWith(T(j), MarkerEXTINF) /\ HasMetadataShape(T(j))

\* metadata line j was still pending when metadata line k was read
Superseded(j, k) ==
    /\ j < k
    /\ IsShapedMetadata(j)
    /\ IsShapedMetadata(k)
    /\ \A h \in (j + 1)..(k - 1) : ~startsWith(T(h), PrefixHttp)

\* C5: a metadata line followed by another metadata line with no URL line
\* between them is never emitted; the pending entry is always the one of the
\* most recent metadata line alone, and so is every Channel: its metadata line is
\* the last #EXTINF line before its URL line and its fields are those that this
\* line and the URL line make by themselves.
C5_LatestMetadataWins ==
    /\ \A j, k \in Read :
          Superseded(j, k) => \A a \in DOMAIN origin : origin[a].meta # j
    /\ currentChannel # NoChannel =>
          /\ pendingLine = LastExtinfBefore(i)
          /\ pendingLine > 0
          /\ currentChannel[1] =
                ChannelOfExtinf(FreshChannel, extinfMatch(T(pendingLine)))
    /\ \A a \in DOMAIN channels :
          /\ origin[a].meta = LastExtinfBefore(origin[a].url)
          /\ channels[a].title =
                ChannelOfLines(lines[origin[a].meta], lines[origin[a].url]).title
          /\ channels[a].rawAttributes =
                ChannelOfLines(lines[origin[a].meta], lines[origin[a].url]).rawAttributes
          /\ channels[a].groupTitle =
                ChannelOfLines(lines[origin[a].meta], lines[origin[a].url]).groupTitle

\* two metadata lines, then two URL lines: one Channel, from the second
\* metadata line, which differs from what the first would have given
C5_Witness ==
    /\ pc = "done"
    /\ Len(lines) = 4
    /\ Superseded(1, 2)
    /\ HasValidScheme(T(3))
    /\ HasValidScheme(T(4))
    /\ Len(channels) = 1
    /\ origin[1] = [meta |-> 2, url |-> 3]
    /\ channels[1].title # ChannelOfLines(lines[1], lines[3]).title

\* C6: a step that reads a line starting with http while an entry is pending
\* empties the slot and appends the entry, with the trimmed line as streamUrl,
\* iff the line starts with http:// or https://; with no entry pending it
\* appends nothing; so of two URL lines with no #EXTINF line between them the
\* second is never the URL of a Channel.
C6_Step ==
    (InLoop /\ startsWith(trimmedLine, PrefixHttp)) =>
        /\ currentChannel' = NoChannel
        /\ channels' =
              IF currentChannel # NoChannel /\ HasValidScheme(trimmedLine)
              THEN Append(channels,
                          [currentChannel[1] EXCEPT !.streamUrl = trimmedLine])
              ELSE channels

C6_State ==
    \A u, v \in Read :
        (/\ u < v
         /\ startsWith(T(u), PrefixHttp)
         /\ startsWith(T(v), PrefixHttp)
         /\ \A h \in (u + 1)..(v - 1) : ~startsWith(T(h), MarkerEXTINF))
        => \A a \in DOMAIN origin : origin[a].url # v

C6_UrlLineClearsSlot == [](C6_State) /\ [][C6_Step]_vars

\* a URL line with a bad scheme dropped the pending entry and the valid URL
\* line after it emitted nothing
C6_Witness ==
    /\ pc = "done"
    /\ Len(lines) = 3
    /\ IsShapedMetadata(1)
    /\ startsWith(T(2), PrefixHttp) /\ ~HasValidScheme(T(2))
    /\ HasValidScheme(T(3))
    /\ channels = <<>>

SchemeSeparator == <<":", "/", "/">>

\* <scheme>://... with a scheme other than http and https
IsOtherSchemeUrl(s) ==
    /\ \E p \in 2..Len(s) : StartsWithAt(s, SchemeSeparator, p)
    /\ ~HasValidScheme(s)

\* C7: a metadata line whose next non-blank line is a URL with a scheme other
\* than http/https is the metadata line of no Channel, whatever follows.
C7_OtherSchemeDropsEntry ==
    \A j \in Read :
        (/\ IsShapedMetadata(j)
         /\ NextNonBlank(j) \in Read
         /\ IsOtherSchemeUrl(T(NextNonBlank(j))))
        => \A a \in DOMAIN origin : origin[a].meta # j

\* C8: a step that reads a line starting with #EXTINF that has not the metadata
\* shape empties the slot and appends nothing; such a line is the metadata line
\* of no Channel, and a URL line whose last preceding #EXTINF line is such a
\* line is the URL line of no Channel.
C8_Step ==
    (InLoop /\ startsWith(trimmedLine, MarkerEXTINF)
            /\ ~HasMetadataShape(trimmedLine)) =>
        /\ currentChannel' = NoChannel
        /\ channels' = channels

C8_State ==
    /\ \A a \in DOMAIN origin : HasMetadataShape(T(origin[a].meta))
    /\ \A u \in Read :
          (/\ startsWith(T(u), PrefixHttp)
           /\ LastExtinfBefore(u) > 0
           /\ ~HasMetadataShape(T(LastExtinfBefore(u))))
          => \A a \in DOMAIN origin : origin[a].url # u

C8_MalformedLeavesNoEntry == [](C8_State) /\ [][C8_Step]_vars

\* a malformed #EXTINF line discarded a pending entry and the URL line after it
\* emitted nothing
C8_Witness ==
    /\ pc = "done"
    /\ Len(lines) = 3
    /\ IsShapedMetadata(1)
    /\ startsWith(T(2), MarkerEXTINF) /\ ~HasMetadataShape(T(2))
    /\ HasValidScheme(T(3))
    /\ channels = <<>>

\* a duration that is missing or a negative integer
IsMissingOrNegative(dur) ==
    \/ dur = <<>>
    \/ /\ Len(dur) >= 2
       /\ dur[1] = "-"
       /\ \A k \in 2..Len(dur) : dur[k] \in Digits

\* C9: a metadata line with a missing or negative duration followed by a valid
\* URL line yields one Channel, the same as with any other duration.
C9_DurationTolerated ==
    pc = "done" =>
        \A j \in 1..(Len(lines) - 1) : \A d \in DeclaredMetas :
            (/\ lines[j] = Render(d)
             /\ IsMissingOrNegative(d.dur)
             /\ HasValidScheme(T(j + 1)))
            => \E a \in DOMAIN origin :
                  /\ origin[a] = [meta |-> j, url |-> j + 1]
                  /\ channels[a] =
                        ChannelOfLines(Render([d EXCEPT !.dur = <<"0">>]),
                                       lines[j + 1])

\* the value of the last tvg-name attribute of a declared metadata line, Null
\* if it declares none
RECURSIVE DeclaredName(_)
DeclaredName(attrs) ==
    IF attrs = <<>> THEN Null
    ELSE IF toLowerCase(attrs[Len(attrs)].key) = KeyTvgName
         THEN attrs[Len(attrs)].value
         ELSE DeclaredName(SubSeq(attrs, 1, Len(attrs) - 1))

\* the title the resolution order gives: name, else title text, else placeholder
TitleByOrder(name, text) ==
    IF name # Null /\ name # <<>> THEN name
    ELSE IF trim(text) # <<>> THEN trim(text)
    ELSE UntitledChannel

\* C10: the title of every Channel is the tvg-name value of its metadata line
\* if the line has a tvg-name attribute with a non-empty value, else the
\* trimmed title text of the line, else 'Untitled Channel'.
C10_TitleResolution ==
    \A a \in DOMAIN channels : \A d \in DeclaredMetas :
        lines[origin[a].meta] = Render(d)
        => channels[a].title = TitleByOrder(DeclaredName(d.attrs), d.title)

\* no comma and no double quote in the attribute values
HasPlainValues(d) ==
    \A k \in DOMAIN d.attrs :
        \A h \in DOMAIN d.attrs[k].value : d.attrs[k].value[h] \notin {",", "\""}

\* The order itself, on what extinfRegex and attributeValueRegex extract: the
\* title is the recorded tvg-name value if there is one and it is not empty,
\* else the trimmed text after the separating comma, else the placeholder; and
\* for declared lines with values free of commas and quotes that is the
\* declared name and text.
TitleFollowsRecordedName ==
    \A a \in DOMAIN channels :
        /\ LET raw == channels[a].rawAttributes
               m == extinfMatch(T(origin[a].meta))
           IN  channels[a].title =
                  TitleByOrder(IF KeyTvgName \in DOMAIN raw
                               THEN raw[KeyTvgName] ELSE Null,
                               m.title)
        /\ \A d \in DeclaredMetas :
              (lines[origin[a].meta] = Render(d) /\ HasPlainValues(d))
              => channels[a].title = TitleByOrder(DeclaredName(d.attrs), d.title)

-----------------------------------------------------------------------------
\* the value of the last attribute of a declared metadata line whose key is
\* key after lower-casing, Null if it declares none
RECURSIVE DeclaredValue(_, _)
DeclaredValue(attrs, key) ==
    IF attrs = <<>> THEN Null
    ELSE IF toLowerCase(attrs[Len(attrs)].key) = key
         THEN attrs[Len(attrs)].value
         ELSE DeclaredValue(SubSeq(attrs, 1, Len(attrs) - 1), key)

\* the lower-cased keys a declared metadata line carries
DeclaredKeys(attrs) == {toLowerCase(attrs[k].key) : k \in DOMAIN attrs}

\* the Channel emitted for metadata line j, as a set of at most one element
ChannelsOfLine(j) == {channels[a] : a \in {b \in DOMAIN origin : origin[b].meta = j}}

\* C11: for every Channel whose metadata line is a declared line, every
\* declared attribute, a comma inside its quoted value or not, is in
\* rawAttributes with its whole value, and the title text the parser takes is
\* the text after the comma that follows the attributes.
C11_QuotedCommaKept ==
    \A a \in DOMAIN channels : \A d \in DeclaredMetas :
        lines[origin[a].meta] = Render(d)
        => /\ \A key \in DeclaredKeys(d.attrs) \ {KeyProto} :
                 /\ key \in DOMAIN channels[a].rawAttributes
                 /\ channels[a].rawAttributes[key] = DeclaredValue(d.attrs, key)
           /\ extinfMatch(T(origin[a].meta)).title = d.title

\* C12: for every Channel whose metadata line is a declared line, rawAttributes
\* has exactly the lower-cased declared keys, each with the value of its last
\* occurrence, and tvgId, logo and groupTitle agree with rawAttributes.
C12_RawAttributesComplete ==
    \A a \in DOMAIN channels :
        LET raw == channels[a].rawAttributes
        IN  /\ \A key \in DOMAIN raw : key = toLowerCase(key)
            /\ channels[a].tvgId =
                  IF KeyTvgId \in DOMAIN raw THEN raw[KeyTvgId] ELSE Null
            /\ channels[a].logo =
                  IF KeyTvgLogo \in DOMAIN raw THEN raw[KeyTvgLogo] ELSE Null
            /\ KeyGroupTitle \in DOMAIN raw
                  => channels[a].groupTitle = raw[KeyGroupTitle]
            /\ \A d \in DeclaredMetas :
                  lines[origin[a].meta] = Render(d)
                  => /\ DOMAIN raw = DeclaredKeys(d.attrs)
                     /\ \A key \in DOMAIN raw : raw[key] = DeclaredValue(d.attrs, key)

\* What holds of rawAttributes on every input: its keys are lower-cased, the
\* typed fields agree with it, and it holds the pairs attributeValueRegex finds
\* in the segment extinfRegex delimits, the key __proto__ excepted.
TypedFieldsAgree ==
    \A a \in DOMAIN channels :
        LET raw == channels[a].rawAttributes
        IN  /\ \A key \in DOMAIN raw : key = toLowerCase(key) /\ key # KeyProto
            /\ channels[a].tvgId =
                  IF KeyTvgId \in DOMAIN raw THEN raw[KeyTvgId] ELSE Null
            /\ channels[a].logo =
                  IF KeyTvgLogo \in DOMAIN raw THEN raw[KeyTvgLogo] ELSE Null
            /\ channels[a].groupTitle =
                  IF KeyGroupTitle \in DOMAIN raw
                  THEN raw[KeyGroupTitle] ELSE Uncategorized

\* an integer, with or without sign
IsInteger(dur) ==
    LET from == IF dur # <<>> /\ dur[1] = "-" THEN 2 ELSE 1
    IN  /\ from <= Len(dur)
        /\ \A k \in from..Len(dur) : dur[k] \in Digits

IsPlainText(v) == \A h \in DOMAIN v : v[h] \notin {",", "\""}

\* #EXTINF:<n> k1="v1" ... km="vm",Title with distinct keys of word characters
\* and hyphens, values and Title free of commas and double quotes, Title not
\* empty
IsWellFormedMeta(d) ==
    /\ IsInteger(d.dur)
    /\ \A k \in DOMAIN d.attrs :
          /\ d.attrs[k].key # <<>>
          /\ \A h \in DOMAIN d.attrs[k].key : d.attrs[k].key[h] \in KeyChars
          /\ IsPlainText(d.attrs[k].value)
    /\ \A k, h \in DOMAIN d.attrs :
          k # h => toLowerCase(d.attrs[k].key) # toLowerCase(d.attrs[h].key)
    /\ d.title # <<>>
    /\ IsPlainText(d.title)

\* the Channel a well-formed declared line and a URL line declare
DeclaredChannel(d, u) ==
    [title |-> TitleByOrder(DeclaredName(d.attrs), d.title),
     streamUrl |-> trim(u),
     logo |-> DeclaredValue(d.attrs, KeyTvgLogo),
     groupTitle |-> IF KeyGroupTitle \in DeclaredKeys(d.attrs)
                    THEN DeclaredValue(d.attrs, KeyGroupTitle)
                    ELSE Uncategorized,
     tvgId |-> DeclaredValue(d.attrs, KeyTvgId),
     rawAttributes |-> [key \in DeclaredKeys(d.attrs) |->
                           DeclaredValue(d.attrs, key)]]

\* C13: a well-formed declared metadata line followed by a line starting with
\* http:// or https:// yields exactly one Channel, with the declared
\* rawAttributes, typed fields and title and the trimmed URL line as streamUrl.
C13_WellFormedRoundTrip ==
    pc = "done" =>
        \A j \in 1..(Len(lines) - 1) : \A d \in DeclaredMetas :
            (/\ lines[j] = Render(d)
             /\ IsWellFormedMeta(d)
             /\ HasValidScheme(lines[j + 1]))
            => /\ Emitted(j, j + 1)
               /\ ChannelsOfLine(j) = {DeclaredChannel(d, lines[j + 1])}

\* The same for the well-formed lines that have no key __proto__.
RoundTripOfOwnKeys ==
    pc = "done" =>
        \A j \in 1..(Len(lines) - 1) : \A d \in DeclaredMetas :
            (/\ lines[j] = Render(d)
             /\ IsWellFormedMeta(d)
             /\ KeyProto \notin DeclaredKeys(d.attrs)
             /\ HasValidScheme(lines[j + 1]))
            => /\ Emitted(j, j + 1)
               /\ ChannelsOfLine(j) = {DeclaredChannel(d, lines[j + 1])}

\* C14: the groupTitle of every Channel whose metadata line is a declared line
\* is the declared group-title value as written if the line declares one, and
\* 'Uncategorized' if it declares none.
C14_GroupTitleVerbatim ==
    \A a \in DOMAIN channels : \A d \in DeclaredMetas :
        lines[origin[a].meta] = Render(d)
        => channels[a].groupTitle =
              IF KeyGroupTitle \in DeclaredKeys(d.attrs)
              THEN DeclaredValue(d.attrs, KeyGroupTitle)
              ELSE Uncategorized

\* The same for the declared lines without a comma or a double quote in a value.
GroupTitleOfPlainValues ==
    \A a \in DOMAIN channels : \A d \in DeclaredMetas :
        (lines[origin[a].meta] = Render(d) /\ HasPlainValues(d))
        => channels[a].groupTitle =
              IF KeyGroupTitle \in DeclaredKeys(d.attrs)
              THEN DeclaredValue(d.attrs, KeyGroupTitle)
              ELSE Uncategorized

-----------------------------------------------------------------------------
\* a line that is blank, starts with #EXTM3U, or starts with neither #EXTINF
\* nor http
IsIgnorable(t) ==
    \/ t = <<>>
    \/ startsWith(t, MarkerEXTM3U)
    \/ ~startsWith(t, MarkerEXTINF) /\ ~startsWith(t, PrefixHttp)

\* the lines of ls that are not ignorable, in their order
RECURSIVE WithoutIgnorable(_)
WithoutIgnorable(ls) ==
    IF ls = <<>> THEN <<>>
    ELSE IF IsIgnorable(trim(Head(ls)))
         THEN WithoutIgnorable(Tail(ls))
         ELSE <<Head(ls)>> \o WithoutIgnorable(Tail(ls))

\* C16: a step that reads an ignorable line changes neither channels nor the
\* slot, and the sequence returned for an input is the one parseM3U returns
\* for the input with its ignorable lines removed.
C16_Step ==
    (InLoop /\ IsIgnorable(trimmedLine)) =>
        /\ channels' = channels
        /\ currentChannel' = currentChannel

C16_State ==
    pc = "done" => channels = parseM3U(Join(WithoutIgnorable(lines)))

C16_IgnoredLines == [](C16_State) /\ [][C16_Step]_vars

\* an ftp line and a blank line were read between a metadata line and its URL
\* line, in either order, and the Channel was returned
C16_Witness ==
    /\ pc = "done"
    /\ Len(lines) = 4
    /\ IsShapedMetadata(1)
    /\ {T(2), T(3)} = {UrlFtp, <<>>}
    /\ HasValidScheme(T(4))
    /\ Len(channels) = 1

RECURSIVE JoinCRLF(_)
JoinCRLF(ls) ==
    IF Len(ls) = 1 THEN ls[1]
    ELSE ls[1] \o <<"\r", "\n">> \o JoinCRLF(Tail(ls))

\* every line ending \n replaced by \r\n: the pieces between the \n put
\* together again with \r\n
WithCRLF(text) == JoinCRLF(split(text))

HasCR(str) == \E k \in DOMAIN str : str[k] = "\r"

\* C17: the sequence returned for an input is the one parseM3U returns for
\* the input with \r\n line endings, and no title or streamUrl of the latter
\* holds a carriage return.
C17_LineEndings ==
    pc = "done" =>
        LET out == parseM3U(WithCRLF(Join(lines)))
        IN  /\ out = channels
            /\ \A a \in DOMAIN out : ~HasCR(out[a].title) /\ ~HasCR(out[a].streamUrl)

\* two Channels were returned for an input of four lines, whose \r\n form has
\* a carriage return at the end of the metadata lines and of the first URL line
C17_Witness ==
    /\ pc = "done"
    /\ Len(lines) = 4
    /\ Len(channels) = 2
    /\ HasCR(WithCRLF(Join(lines)))

-----------------------------------------------------------------------------
\* C15: every parseM3U call returns what the loop gives for its argument when
\* started with no Channel and an empty slot, so two calls with the same text
\* return equal sequences and a pending entry of one call is not completed by
\* the next; a call starts with an empty slot; and no step of the loop changes
\* allChannels, filteredChannels or favorites.
C15_State ==
    /\ \A k \in DOMAIN parsed :
          parsed[k].channels = parseM3U(Join(parsed[k].lines))
    /\ \A k, h \in DOMAIN parsed :
          parsed[k].lines = parsed[h].lines => parsed[k].channels = parsed[h].channels
    /\ (pc = "loop" /\ i = 1) => (currentChannel = NoChannel /\ channels = <<>>)

C15_Step ==
    pc = "loop" => UNCHANGED <<allChannels, filteredChannels, favorites>>

C15_NoStateAcrossCalls == [](C15_State) /\ [][C15_Step]_vars

\* the same text was parsed twice, with a URL line first and a metadata line
\* left pending at the end, and neither call returned a Channel
C15_Witness ==
    /\ Len(parsed) = 2
    /\ parsed[1].lines = split(TextUrlThenPending)
    /\ parsed[2].lines = split(TextUrlThenPending)
    /\ parsed[1].channels = <<>>
    /\ parsed[2].channels = <<>>
    /\ currentChannel # NoChannel

\* the text starts with #EXTM3U or #EXTINF occurs in it
IsPlausiblePlaylist(text) ==
    \/ \A k \in 1..Len(MarkerEXTM3U) : k <= Len(text) /\ text[k] = MarkerEXTM3U[k]
    \/ \E p \in 1..Len(text) : StartsWithAt(text, MarkerEXTINF, p)

\* a step that ends a fetchM3UData call
FetchEnds == fetchPc # "idle" /\ fetchPc' = "idle"

\* C18: a parseM3U call starts only from a fetch whose response was ok and
\* whose text starts with #EXTM3U or contains #EXTINF; a fetch that ends
\* without having called it leaves allChannels and filteredChannels as they
\* were and shows an error message.
C18_Step ==
    /\ (pc # "loop" /\ pc' = "loop") =>
          /\ fetchPc = "text"
          /\ IsPlausiblePlaylist(Join(lines'))
    /\ (FetchEnds /\ fetchPc # "parse") =>
          /\ UNCHANGED <<allChannels, filteredChannels, parsed>>
          /\ pageMessage'.type = "danger"
          /\ pageMessage'.display = "block"

C18_State ==
    /\ Len(parsed) <= fetchCount
    /\ \A k \in DOMAIN parsed : IsPlausiblePlaylist(Join(parsed[k].lines))
    /\ pc = "loop" => (fetchPc = "parse" /\ IsPlausiblePlaylist(Join(lines)))

C18_ParseOnlyPlausibleText == [](C18_State) /\ [][C18_Step]_vars

\* after a fetch that loaded Channels, a second one got a text that is no
\* playlist: the Channels are still there and the error is shown
C18_Witness ==
    /\ fetchCount = 2
    /\ fetchPc = "idle"
    /\ Len(parsed) = 1
    /\ allChannels # <<>>
    /\ filteredChannels = allChannels
    /\ pageMessage = showPageMessage(TextError(ErrorNotM3U), "danger")

\* C19: while a fetch is in flight the message is 'Loading channels...'; the
\* step that ends it shows a message of type success iff the parse returned at
\* least one Channel, warning iff it returned none, danger iff parseM3U was
\* not called; afterwards the message is never the loading one.
C19_Step ==
    FetchEnds =>
        /\ pageMessage'.display = "block"
        /\ pageMessage'.textContent # TextLoading
        /\ pageMessage'.type \in {"success", "warning", "danger"}
        /\ pageMessage'.type = "success" <=>
              (fetchPc = "parse" /\ pc = "done" /\ Len(channels) >= 1)
        /\ pageMessage'.type = "warning" <=>
              (fetchPc = "parse" /\ pc = "done" /\ Len(channels) = 0)
        /\ pageMessage'.type = "danger" <=> fetchPc \in {"fetch", "errorText", "text"}

C19_State ==
    /\ fetchPc # "idle" =>
          (pageMessage.textContent = TextLoading /\ pageMessage.type = "info")
    /\ (fetchPc = "idle" /\ fetchCount > 0) =>
          /\ pageMessage.textContent # TextLoading
          /\ pageMessage.type \in {"success", "warning", "danger"}

C19_OneOutcomeMessage == [](C19_State) /\ [][C19_Step]_vars

\* a fetch ended with the warning of an empty playlist after an earlier one
\* had ended with an error
C19_Witness ==
    /\ fetchCount = 2
    /\ fetchPc = "idle"
    /\ parsed # <<>>
    /\ parsed[Len(parsed)].channels = <<>>
    /\ pageMessage = showPageMessage(TextNoValidChannels, "warning")
    /\ Len(parsed) = 1

\* C20: the step that ends a successful fetch makes allChannels the sequence
\* parseM3U returns for the fetched text and filteredChannels equal to it; so
\* whenever no parse result is waiting to be stored, allChannels is the result
\* of the last parseM3U call.
C20_Step ==
    (FetchEnds /\ fetchPc = "parse" /\ pc = "done") =>
        /\ allChannels' = parseM3U(Join(lines))
        /\ filteredChannels' = allChannels'

C20_State ==
    fetchPc # "parse" =>
        allChannels = IF parsed = <<>> THEN <<>> ELSE parsed[Len(parsed)].channels

C20_ReplacedWholesale == [](C20_State) /\ [][C20_Step]_vars

\* two fetches loaded Channels and none of the first is left
C20_Witness ==
    /\ fetchPc = "idle"
    /\ Len(parsed) = 2
    /\ parsed[1].channels # <<>>
    /\ allChannels # <<>>
    /\ allChannels = parsed[2].channels
    /\ filteredChannels = allChannels
    /\ \A a \in DOMAIN parsed[1].channels : \A b \in DOMAIN allChannels :
          parsed[1].channels[a] # allChannels[b]

-----------------------------------------------------------------------------
\* C29: every Channel is the one parseM3U returns for its metadata line and
\* its URL line alone, whatever lines precede them in the input; and the regex
\* is back at position 0 whenever a line has been dealt with.
C29_NoLeakBetweenEntries ==
    /\ lastIndex = 0
    /\ \A a \in DOMAIN channels :
          parseM3U(Join(<<lines[origin[a].meta], lines[origin[a].url]>>))
              = <<channels[a]>>

\* a metadata line with attributes was emitted after an entry with attributes
\* had been emitted, and its Channel is not the one its title text alone gives
C29_Witness ==
    /\ pc = "done"
    /\ Len(channels) = 2
    /\ origin[1].meta = 1
    /\ channels[1].rawAttributes # EmptyObject
    /\ channels[2].rawAttributes # EmptyObject
    /\ channels[2].title # titleString(extinfMatch(T(origin[2].meta)))

-----------------------------------------------------------------------------
(* The page under the user's hands *)

\* the Channels of a list, as a set
ChannelsOf(list) == {list[k] : k \in DOMAIN list}

\* a step of a handler of the user or of the player
HandlerStep == UserCanAct /\ fetchPc' = fetchPc

\* a step in which handlePlayerError puts a (new) error into the player
\* container
PlayerErrorStep ==
    /\ HandlerStep
    /\ playerContainer' # playerContainer
    /\ playerContainer'.content = "error"

\* C21: toggleFavorite, applyFilters, renderFavorites, playChannel and
\* handlePlayerError never change allChannels nor a field of a Channel: after
\* a step of a handler allChannels holds the same Channels with the same
\* fields, and the Channels of filteredChannels and of the cards are Channels
\* of allChannels as they are.  handlePlayerError also leaves filteredChannels
\* and favorites as they were and shows an error message.
C21_Step ==
    /\ HandlerStep => allChannels' = allChannels
    /\ PlayerErrorStep =>
          /\ filteredChannels' = filteredChannels
          /\ favorites' = favorites
          /\ playerContainer'.message \in
                {TextStreamError} \cup
                {TextStreamErrorOf(e[1].message) : e \in PlayerErrors \ {<<>>}}

C21_State ==
    /\ ChannelsOf(filteredChannels) \subseteq ChannelsOf(allChannels)
    /\ \A card \in VisibleCards : card.channel \in ChannelsOf(allChannels)

C21_HandlersKeepChannels == [](C21_State) /\ [][C21_Step]_vars

\* three Channels loaded, then a search that keeps one of them, a favorite
\* toggled, a Channel played and a player error shown
C21_Witness ==
    /\ Len(allChannels) = 3
    /\ Len(filteredChannels) = 1
    /\ searchInput # <<>>
    /\ Len(favorites) = 2
    /\ currentStreamUrl # Null
    /\ playerContainer.content = "error"

\* the titles in the favorites list
TitlesOf(favs) == {favs[k] : k \in DOMAIN favs}

\* the cards of the two grids, shown or not
CardsOf(grid) == {grid.cards[k] : k \in DOMAIN grid.cards}

\* C22: favorite status goes by exact equality of titles and by nothing
\* else.  A card the user can see shows its Channel as favorite exactly when
\* the title of the Channel is in favorites, whatever its tvgId; and a step
\* that toggles a title flips the status of exactly the Channels of
\* allChannels with that title.
C22_State ==
    \A card \in VisibleCards :
        card.favorited <=> card.channel.title \in TitlesOf(favorites)

C22_Step ==
    (HandlerStep /\ favorites' # favorites) =>
        \E card \in VisibleCards :
            \A k \in DOMAIN allChannels :
                (allChannels[k].title = card.channel.title)
                    <=> ((allChannels[k].title \in TitlesOf(favorites'))
                            # (allChannels[k].title \in TitlesOf(favorites)))

C22_FavoriteByTitle == [](C22_State) /\ [][C22_Step]_vars

\* the title A was toggled on after the title N: the two Channels titled A,
\* which differ in tvgId, are both shown as favorites
C22_Witness ==
    /\ IsVisible("channels")
    /\ Len(channelGrid.cards) = 3
    /\ favorites = << <<"N">>, <<"A">> >>
    /\ channelGrid.cards[2].channel.title = <<"A">>
    /\ channelGrid.cards[3].channel.title = <<"A">>
    /\ channelGrid.cards[2].channel.tvgId # channelGrid.cards[3].channel.tvgId
    /\ channelGrid.cards[2].favorited
    /\ channelGrid.cards[3].favorited

\* a step of the show-favorites click that finds the favorites section
\* visible: the section is hidden and the player does not appear
FavoritesClosedStep ==
    /\ HandlerStep
    /\ IsVisible("favorites")
    /\ "favorites" \in sectionsHidden'
    /\ "player" \in sectionsHidden'

\* C23: a click on the show-favorites button while the favorites section is
\* visible hides that section and makes the channels section visible again,
\* its grid showing filteredChannels, the Channels that pass the current
\* search and category.
C23_Step ==
    FavoritesClosedStep =>
        /\ "channels" \notin sectionsHidden'
        /\ filteredChannels' =
              FilterChannels(allChannels, searchInput,
                             categoryValue(categoryFilter, selectedIndex))
        /\ channelGrid' = renderChannels(filteredChannels', favorites)

C23_ChannelsShownAgain == [][C23_Step]_vars

\* the title contains the term, letter case apart
ContainsIgnoringCase(title, term) ==
    \E k \in 1..(Len(title) - Len(term) + 1) :
        \A j \in DOMAIN term : LowerChar(title[k + j - 1]) = LowerChar(term[j])

\* the option stands for every group, or it names the group
OptionMatches(option, groupTitle) ==
    option.text = AllCategories \/ option.value = groupTitle

\* the Channels of the list that pass the search term and the option
PassingChannels(all, term, option) ==
    LET Passes(channel) ==
            /\ ContainsIgnoringCase(channel.title, term)
            /\ OptionMatches(option, channel.groupTitle)
    IN  SelectSeq(all, Passes)

\* a step in which applyFilters runs: the search box or the dropdown has
\* changed, or the favorites section has been closed
ApplyFiltersStep ==
    /\ HandlerStep
    /\ \/ searchInput' # searchInput
       \/ selectedIndex' # selectedIndex
       \/ FavoritesClosedStep

\* C24: after applyFilters, filteredChannels is exactly the Channels of
\* allChannels, in their order, whose title contains the search term (letter
\* case apart) and whose groupTitle equals the selected category, the option
\* 'All Categories' matching every group; so with 'All Categories' selected
\* and an empty search box filteredChannels equals allChannels.
C24_Step ==
    (ApplyFiltersStep /\ selectedIndex' \in DOMAIN categoryFilter') =>
        /\ filteredChannels' =
              PassingChannels(allChannels', searchInput',
                              categoryFilter'[selectedIndex'])
        /\ (/\ categoryFilter'[selectedIndex'].text = AllCategories
            /\ searchInput' = <<>>) => filteredChannels' = allChannels'

C24_FilteredIsMatching == [][C24_Step]_vars

\* no title twice in the list
NoDuplicates(favs) ==
    \A h, k \in DOMAIN favs : favs[h] = favs[k] => h = k

\* the titles of the Channels of the page
LoadedTitles == {allChannels[k].title : k \in DOMAIN allChannels}

\* a step of toggleFavorite
ToggleStep == HandlerStep /\ favorites' # favorites

\* C25: toggleFavorite(t) flips the membership of t in favorites and of no
\* other title, and never leaves a title twice in the list; toggling the same
\* title twice gives back the original set of titles; and after every toggle
\* the list persisted under 'iptvFavorites' is the list in memory.
C25_Step ==
    ToggleStep =>
        /\ \E card \in VisibleCards :
              LET t == card.channel.title
              IN  TitlesOf(favorites') =
                      IF t \in TitlesOf(favorites)
                      THEN TitlesOf(favorites) \ {t}
                      ELSE TitlesOf(favorites) \cup {t}
        /\ NoDuplicates(favorites')
        /\ storage' # Null
        /\ JSONparse(storage') = favorites'

C25_State ==
    /\ NoDuplicates(favorites)
    /\ StoredList(storage) = favorites
    /\ \A t \in LoadedTitles :
          TitlesOf(toggleFavorite(toggleFavorite(favorites, t), t))
              = TitlesOf(favorites)

C25_ToggleFlipsOneTitle == [](C25_State) /\ [][C25_Step]_vars

\* a title has been toggled off, after it was toggled on or found stored: the
\* list in memory is empty again and the persisted one is the JSON of it
C25_Witness ==
    /\ Len(allChannels) = 3
    /\ favorites = <<>>
    /\ storage = JSONstringify(<<>>)

\* the stream the player was last given
PlayerStream(player) ==
    IF player[1].loaded # Null THEN player[1].loaded ELSE player[1].source

\* a step of playChannel with a Channel that has a stream URL: the player
\* section appears
PlayStep ==
    /\ HandlerStep
    /\ ~IsVisible("player")
    /\ "player" \notin sectionsHidden'

\* a step of playChannel without such a Channel: its message appears
PlayRefusedStep ==
    /\ HandlerStep
    /\ pageMessage' # pageMessage
    /\ pageMessage'.textContent = TextNoStream
    /\ pageMessage'.display = "block"

\* C26: playChannel with a Channel that has a non-empty streamUrl leaves the
\* player section as the only visible one, sets currentStreamUrl to that
\* streamUrl, and creates a player only when there is none, so there is never
\* more than one; playChannel with no Channel or an empty streamUrl changes
\* no section, nor the player, nor currentStreamUrl; and no Channel of
\* allChannels or of a card has an empty streamUrl, so that branch is never
\* taken for one of them.
C26_Step ==
    /\ PlayStep =>
          /\ Sections \ sectionsHidden' = {"player"}
          /\ \E card \in VisibleCards :
                currentStreamUrl' = card.channel.streamUrl
          /\ currentStreamUrl' # <<>>
          /\ clapprPlayer' # <<>>
          /\ PlayerStream(clapprPlayer') = currentStreamUrl'
          /\ IF clapprPlayer = <<>>
             THEN playersCreated' = playersCreated + 1
             ELSE /\ playersCreated' = playersCreated
                  /\ clapprPlayer'[1].id = clapprPlayer[1].id
    /\ PlayRefusedStep =>
          /\ sectionsHidden' = sectionsHidden
          /\ clapprPlayer' = clapprPlayer
          /\ currentStreamUrl' = currentStreamUrl
          /\ playersCreated' = playersCreated

C26_State ==
    /\ playersCreated <= 1
    /\ (clapprPlayer = <<>>) <=> (playersCreated = 0)
    /\ \A channel \in ChannelsOf(allChannels) \cup
                       {card.channel : card \in CardsOf(channelGrid)
                                               \cup CardsOf(favoriteGrid)} :
          channel.streamUrl \notin {<<>>, Null}

C26_PlayChannel == [](C26_State) /\ [][C26_Step]_vars

\* the one player was created for one stream and later loaded with another,
\* and after that playChannel was called without a Channel that can be played
C26_Witness ==
    /\ Sections \ sectionsHidden = {"player"}
    /\ playersCreated = 1
    /\ clapprPlayer[1].loaded # Null
    /\ clapprPlayer[1].loaded # clapprPlayer[1].source
    /\ currentStreamUrl = clapprPlayer[1].loaded
    /\ pageMessage.textContent = TextNoStream
    /\ pageMessage.display = "block"

\* the sections the user sees
VisibleSections == Sections \ sectionsHidden

\* C27: the page starts with the channels section as the only visible one,
\* and after any sequence of user events, player errors and completions of
\* the fetch at most one of the three sections is visible.
C27_AtMostOneSection == Cardinality(VisibleSections) <= 1

\* the fetch has completed, a Channel was played, and the favorites section
\* was opened after that: it is the one visible section
C27_Witness ==
    /\ Len(allChannels) > 0
    /\ fetchPc = "idle"
    /\ currentStreamUrl # Null
    /\ VisibleSections = {"favorites"}

\* the Channels the cards of a grid stand for, in the order of the cards
ShownChannels(grid) == [k \in DOMAIN grid.cards |-> grid.cards[k].channel]

\* the Channels of the list whose title is a favorite, in their order
FavoriteChannels(all, favs) ==
    LET Chosen(channel) == channel.title \in TitlesOf(favs)
    IN  SelectSeq(all, Chosen)

\* C28: under every interleaving of user events and completions of the
\* fetch, whenever the favorites section is visible its grid shows exactly the
\* Channels of the current allChannels whose title is in favorites, in the
\* order of allChannels.
C28_FavoritesGridCurrent ==
    IsVisible("favorites") =>
        ShownChannels(favoriteGrid) = FavoriteChannels(allChannels, favorites)

====
